---------------------------- MODULE Spec2Model ----------------------------
(***************************************************************************)
(* OSHA Monitor: the web listing (app.py) and the email digest            *)
(* (email_digest.py), modelled as state machines.                         *)
(*                                                                         *)
(* Time.  A naive timestamp is a number of ticks: TicksPerDay ticks for    *)
(* every day of the proleptic Gregorian calendar, day ordinal 1 being     *)
(* 0001-01-01 as in Python's date.toordinal().  A datetime value is a     *)
(* record [wall, aware]: its wall-clock reading in ticks and whether it   *)
(* carries a tzinfo.  An operation reads the clock once.                  *)
(*                                                                         *)
(* Text.  A date string sent by an upstream source is modelled by what a  *)
(* lenient parser reads in it: [y, m, d, tod, aware], or Garbage when it  *)
(* reads no date, EmptyDate for "" and JNull for JSON null.  JSON null   *)
(* (Python None) in any other text field is Null.                         *)
(*                                                                         *)
(* Responses.  What a GET returns is [kind, body]: kind "network_error"   *)
(* (requests.get raises), "http_error" (raise_for_status raises),         *)
(* "invalid_body" (the body is not JSON / XML) or "ok" with the parsed    *)
(* body.  A JSON body is JArray(..) at the top level or [obj |-> fields]; *)
(* an XML body is [items |-> the <item> elements].                        *)
(***************************************************************************)
EXTENDS Integers, Sequences, FiniteSets, TLC

VARIABLES
    now,        \* the clock reading of the running operation, in ticks
    pc,         \* position of the operation: "ready", then how it ended
    args,       \* the arguments and configuration of the operation
    upstream,   \* what each remote source answers when it is asked
    result,     \* what the operation returned (or NoResult)
    outbox      \* the messages handed to the email transport

vars == <<now, pc, args, upstream, result, outbox>>

----------------------------------------------------------------------------
(* Bounds of the model *)

\* ticks per day: 2 gives midnight and midday as the times of day
TicksPerDay == 2
\* the oldest publication date tried by the label operations, in days
MaxDaysAgo == 370
\* the furthest future date tried by the label operations, in days
MaxDaysAhead == 46
\* the longest lookback window of a digest run, in days
MaxLookback == 2
\* the most records in one upstream response given to a source client
MaxRecords == 2
\* the most records the sources hold together in a digest run
MaxDigestRecords == 2
\* the most records the sources hold together when the page is requested
MaxIndexRecords == 2
\* the most items the two RSS feeds hold together when the year filter is exercised
MaxFeedItems == 2

----------------------------------------------------------------------------
(* Python values *)

\* None in a slot that holds a datetime
None == [none |-> TRUE]
\* JSON null / None in a slot that holds text
Null == "\\null"
\* a date string in which the parser reads no date
Garbage == [garbage |-> TRUE]
\* the date string ""
EmptyDate == [empty |-> TRUE]
\* the text of a date string in which the parser reads no date
GarbageText == "TBD"
\* JSON values that are not text: null, a number, an array, an object
JNull == [null |-> TRUE]
JInt(n) == [int |-> n]
JArray(s) == [items |-> s]
JObject(fields) == [obj |-> fields]
IsObject(v) == "obj" \in DOMAIN v
IsArray(v) == "items" \in DOMAIN v
\* a parsed XML document: its <item> elements, in document order
Xml(items) == [channel |-> items]
IsXml(v) == "channel" \in DOMAIN v

RECURSIVE Repeat(_, _)
Repeat(text, n) ==
    IF n = 0 THEN ""
    ELSE IF n % 2 = 1 THEN text \o Repeat(text, n - 1)
    ELSE LET half == Repeat(text, n \div 2) IN half \o half

\* the sequences over S of length at most n
SeqsUpTo(S, n) == UNION {[1..k -> S] : k \in 0..n}
\* the unused value of a variable
NoResult == [unset |-> TRUE]

----------------------------------------------------------------------------
(* The calendar of datetime *)

IsLeap(y) == y % 4 = 0 /\ (y % 100 # 0 \/ y % 400 = 0)

DaysInMonth(y, m) ==
    CASE m \in {1, 3, 5, 7, 8, 10, 12} -> 31
      [] m \in {4, 6, 9, 11} -> 30
      [] OTHER -> IF IsLeap(y) THEN 29 ELSE 28

RECURSIVE DaysBeforeMonth(_, _)
DaysBeforeMonth(y, m) ==
    IF m = 1 THEN 0 ELSE DaysBeforeMonth(y, m - 1) + DaysInMonth(y, m - 1)

DaysBeforeYear(y) ==
    LET p == y - 1 IN p * 365 + (p \div 4) - (p \div 100) + (p \div 400)

\* date(y, m, d).toordinal()
Ymd2Ord(y, m, d) == DaysBeforeYear(y) + DaysBeforeMonth(y, m) + d

\* the month in which day r1 (from 0) of `year` falls
MonthOfYearDay(year, r1) ==
    CHOOSE m \in 1..12 :
        /\ DaysBeforeMonth(year, m) <= r1
        /\ r1 < DaysBeforeMonth(year, m) + DaysInMonth(year, m)

YmdOfYearDay(year, r1, month) ==
    [y |-> year, m |-> month, d |-> r1 - DaysBeforeMonth(year, month) + 1]

\* the date n1 whole years and r1 days after 1 January of `base`
YmdFrom(base, n100, n1, r1) ==
    IF n1 = 4 \/ n100 = 4
    THEN [y |-> base + n1 - 1, m |-> 12, d |-> 31]
    ELSE YmdOfYearDay(base + n1, r1, MonthOfYearDay(base + n1, r1))

\* date.fromordinal(n): the year, month and day of ordinal n, by the cycles
\* of 400, 100, 4 and 1 years
Ord2YmdIn4(base, n100, r4) == YmdFrom(base, n100, r4 \div 365, r4 % 365)
Ord2YmdIn100(base, n100, r100) ==
    Ord2YmdIn4(base + (r100 \div 1461) * 4, n100, r100 % 1461)
Ord2YmdIn400(base, r400) ==
    Ord2YmdIn100(base + (r400 \div 36524) * 100, r400 \div 36524, r400 % 36524)
Ord2Ymd(n) == Ord2YmdIn400(((n - 1) \div 146097) * 400 + 1, (n - 1) % 146097)

\* datetime.min: 0001-01-01 00:00
DatetimeMin == Ymd2Ord(1, 1, 1) * TicksPerDay

OrdOf(wall) == wall \div TicksPerDay
YearOf(wall) == Ord2Ymd(OrdOf(wall)).y

MonthAbbr ==
    <<"Jan", "Feb", "Mar", "Apr", "May", "Jun",
      "Jul", "Aug", "Sep", "Oct", "Nov", "Dec">>

MonthName ==
    <<"January", "February", "March", "April", "May", "June", "July",
      "August", "September", "October", "November", "December">>

WeekdayName ==
    <<"Monday", "Tuesday", "Wednesday", "Thursday", "Friday", "Saturday", "Sunday">>

Pad2(n) == IF n < 10 THEN "0" \o ToString(n) ELSE ToString(n)

\* strftime("%b %Y")
FormatMonthYear(c) == MonthAbbr[c.m] \o " " \o ToString(c.y)
StrfMonthYear(wall) == FormatMonthYear(Ord2Ymd(OrdOf(wall)))

\* strftime("%b %d, %Y")
FormatShort(c) == MonthAbbr[c.m] \o " " \o Pad2(c.d) \o ", " \o ToString(c.y)
StrfShort(wall) == FormatShort(Ord2Ymd(OrdOf(wall)))

\* strftime("%B %d, %Y")
FormatLong(c) == MonthName[c.m] \o " " \o Pad2(c.d) \o ", " \o ToString(c.y)
StrfLong(wall) == FormatLong(Ord2Ymd(OrdOf(wall)))

\* strftime("%A, %B %d, %Y"); ordinal 1 is a Monday
StrfToday(wall) == WeekdayName[((OrdOf(wall) - 1) % 7) + 1] \o ", " \o StrfLong(wall)

\* date_parser.parse(text): the datetime read in a date string, or a raise
\* (ValueError) when the string holds no date or an impossible one
ParseDate(text) ==
    IF text = Garbage THEN [raised |-> TRUE]
    ELSE IF ~(text.m \in 1..12 /\ text.d \in 1..DaysInMonth(text.y, text.m))
    THEN [raised |-> TRUE]
    ELSE [raised |-> FALSE,
          value  |-> [wall  |-> Ymd2Ord(text.y, text.m, text.d) * TicksPerDay + text.tod,
                      aware |-> text.aware]]

\* the characters of a date string
RawText(text) ==
    IF text = Garbage THEN GarbageText
    ELSE ToString(text.y) \o "-" \o Pad2(text.m) \o "-" \o Pad2(text.d)

\* the date string of the day `ord`, at time of day `tod`
DateTextOf(c, tod, aware) == [y |-> c.y, m |-> c.m, d |-> c.d, tod |-> tod, aware |-> aware]
DateText(ord, tod, aware) == DateTextOf(Ord2Ymd(ord), tod, aware)

----------------------------------------------------------------------------
(* app.py: the derived display fields *)

\* a pluralisation that forgets the singular
format_time_ago_plural_always(n) == "s"

\* lines 36 and 39: 's' if n > 1 else ''
format_time_ago_plural(n) == IF n > 1 THEN "s" ELSE ""

format_time_ago(pub_date, clock) ==
    LET wall     == pub_date.wall   \* replace(tzinfo=None) keeps the reading
        days_ago == (clock - wall) \div TicksPerDay
    IN  IF days_ago < 0 THEN "Upcoming"
        ELSE IF days_ago = 0 THEN "Today"
        ELSE IF days_ago = 1 THEN "Yesterday"
        ELSE IF days_ago < 7 THEN ToString(days_ago) \o " days ago"
        ELSE IF days_ago < 30 THEN
            LET weeks == days_ago \div 7
            IN  ToString(weeks) \o " week" \o format_time_ago_plural(weeks) \o " ago"
        ELSE IF days_ago < 365 THEN
            LET months == days_ago \div 30
            IN  ToString(months) \o " month" \o format_time_ago_plural(months) \o " ago"
        ELSE StrfMonthYear(wall)

\* doc.get(key, default)
Get(doc, key, default) == IF key \in DOMAIN doc THEN doc[key] ELSE default

\* Python truthiness of a text field, and of a date string
Truthy(v) == v # Null /\ v # ""
TruthyDate(v) == v # JNull /\ v # EmptyDate

\* fetch_federal_register, "Parse effective date"
effective_status(doc, clock) ==
    IF ~TruthyDate(Get(doc, "effective_on", JNull)) THEN ""
    ELSE LET p == ParseDate(doc.effective_on)
         IN  IF p.raised THEN ""
             \* an aware datetime does not compare with datetime.now(): TypeError
             ELSE IF p.value.aware THEN ""
             ELSE LET eff_date == p.value.wall
                  IN  IF eff_date > clock
                      THEN LET days_until == (eff_date - clock) \div TicksPerDay
                           IN  IF days_until = 0 THEN "Effective today"
                               ELSE IF days_until = 1 THEN "Effective tomorrow"
                               ELSE IF days_until < 30
                               THEN "Effective in " \o ToString(days_until) \o " days"
                               ELSE "Effective " \o StrfShort(eff_date)
                      ELSE "Effective since " \o StrfShort(eff_date)

----------------------------------------------------------------------------
(* app.py: the source clients of the web listing *)

\* lines 81-123: one Federal Register record, normalised
fetch_federal_register_doc(doc, clock) ==
    LET base == [title            |-> Get(doc, "title", ""),
                 abstract         |-> Get(doc, "abstract", ""),
                 url              |-> Get(doc, "html_url", ""),
                 pdf_url          |-> Get(doc, "pdf_url", ""),
                 source           |-> "Federal Register",
                 content_type     |-> Get(doc, "type", ""),
                 effective_status |-> effective_status(doc, clock)]
        raw  == Get(doc, "publication_date", JNull)
    IN  IF ~TruthyDate(raw) THEN base
        ELSE LET p == ParseDate(raw)
             IN  IF p.raised
                 THEN base @@ [pub_date           |-> None,
                               pub_date_formatted |-> RawText(raw),
                               time_ago           |-> ""]
                 ELSE base @@ [pub_date           |-> p.value,
                               pub_date_formatted |-> StrfLong(p.value.wall),
                               time_ago           |-> format_time_ago(p.value, clock)]

\* the exceptions `except requests.RequestException` (line 127) catches
fetch_federal_register_catches(exc) == exc = "RequestException"

\* The exception response.json() raises on a body that is not JSON: a
\* requests.JSONDecodeError, which is a RequestException, from requests 2.27
\* on, and a plain ValueError before.
JsonError(legacy_requests) == IF legacy_requests THEN "ValueError" ELSE "RequestException"

\* lines 74-129.  The result is [raised, docs, count]; raised with the
\* exception that leaves the function.
fetch_federal_register(resp, clock, legacy_requests) ==
    LET failed(exc) ==
            IF fetch_federal_register_catches(exc)
            THEN [raised |-> FALSE, docs |-> <<>>, count |-> JInt(0)]
            ELSE [raised |-> TRUE, exc |-> exc]
    IN  IF resp.kind \in {"network_error", "http_error"} THEN failed("RequestException")
        ELSE IF resp.kind = "invalid_body" THEN failed(JsonError(legacy_requests))
        \* data.get on a JSON array
        ELSE IF ~IsObject(resp.body) THEN failed("AttributeError")
        ELSE LET data    == resp.body.obj
                 results == Get(data, "results", JArray(<<>>))
             IN  \* iterating null
                 IF ~IsArray(results) THEN failed("TypeError")
                 \* doc.get on a record that is not an object
                 ELSE IF \E i \in 1..Len(results.items) : ~IsObject(results.items[i])
                 THEN failed("AttributeError")
                 ELSE [raised |-> FALSE,
                       docs   |-> [i \in 1..Len(results.items) |->
                                      fetch_federal_register_doc(results.items[i].obj, clock)],
                       count  |-> Get(data, "count", JInt(0))]

\* lines 142-173: one RSS item, normalised.  findtext gives "" for a missing
\* sub-element.
fetch_osha_rss_doc(item, content_type, source_name, clock) ==
    LET base == [title            |-> Get(item, "title", ""),
                 abstract         |-> Get(item, "description", ""),
                 url              |-> Get(item, "link", ""),
                 pdf_url          |-> "",
                 source           |-> source_name,
                 content_type     |-> content_type,
                 effective_status |-> ""]
        raw  == Get(item, "pubDate", EmptyDate)
        p    == ParseDate(raw)
    IN  IF raw = EmptyDate \/ p.raised
        THEN base @@ [pub_date |-> None, pub_date_formatted |-> "", time_ago |-> ""]
        ELSE base @@ [pub_date           |-> p.value,
                      pub_date_formatted |-> StrfLong(p.value.wall),
                      time_ago           |-> format_time_ago(p.value, clock)]

\* lines 132-179: `except Exception` catches whatever the body raises
fetch_osha_rss(resp, content_type, source_name, clock) ==
    IF resp.kind # "ok" THEN [raised |-> FALSE, docs |-> <<>>]
    ELSE [raised |-> FALSE,
          docs   |-> [i \in 1..Len(resp.body.channel) |->
                         fetch_osha_rss_doc(resp.body.channel[i], content_type,
                                            source_name, clock)]]

----------------------------------------------------------------------------
(* app.py: the page of the web listing *)

DigitChars == <<"0", "1", "2", "3", "4", "5", "6", "7", "8", "9">>
IsDigit(c) == \E k \in 1..10 : DigitChars[k] = c
DigitValue(c) == (CHOOSE k \in 1..10 : DigitChars[k] = c) - 1

RECURSIVE DigitsValue(_, _)
DigitsValue(text, acc) ==
    IF Len(text) = 0 THEN acc
    ELSE DigitsValue(SubSeq(text, 2, Len(text)), acc * 10 + DigitValue(SubSeq(text, 1, 1)))

\* str.strip() of the blanks around a number
RECURSIVE StripLeft(_)
StripLeft(text) ==
    IF Len(text) > 0 /\ SubSeq(text, 1, 1) = " "
    THEN StripLeft(SubSeq(text, 2, Len(text)))
    ELSE text
RECURSIVE StripRight(_)
StripRight(text) ==
    IF Len(text) > 0 /\ SubSeq(text, Len(text), Len(text)) = " "
    THEN StripRight(SubSeq(text, 1, Len(text) - 1))
    ELSE text

\* the number an unsigned decimal string denotes, or a raise (ValueError)
ParseDigits(text) ==
    IF Len(text) > 0 /\ \A i \in 1..Len(text) : IsDigit(SubSeq(text, i, i))
    THEN [raised |-> FALSE, value |-> DigitsValue(text, 0)]
    ELSE [raised |-> TRUE]

Negated(parsed) ==
    IF parsed.raised THEN parsed ELSE [raised |-> FALSE, value |-> 0 - parsed.value]

\* the number a decimal string with an optional sign denotes
ParseSigned(text) ==
    IF Len(text) > 0 /\ SubSeq(text, 1, 1) = "-"
    THEN Negated(ParseDigits(SubSeq(text, 2, Len(text))))
    ELSE IF Len(text) > 0 /\ SubSeq(text, 1, 1) = "+"
    THEN ParseDigits(SubSeq(text, 2, Len(text)))
    ELSE ParseDigits(text)

\* int(year): blanks around the number are dropped, a sign may lead the
\* digits; anything else raises ValueError
ParseInt(text) == ParseSigned(StripRight(StripLeft(text)))

\* a year filter that keeps the items whose date did not parse
filter_by_year_keeps_undated(docs, year) ==
    IF year # "" /\ year # "all" /\ ~ParseInt(year).raised
    THEN SelectSeq(docs, LAMBDA d : IF Get(d, "pub_date", None) = None THEN TRUE
                                    ELSE YearOf(d.pub_date.wall) = ParseInt(year).value)
    ELSE docs

\* lines 244-249 and 256-261: the year filter of an RSS-derived list
filter_by_year(docs, year) ==
    IF year # "" /\ year # "all" /\ ~ParseInt(year).raised
    THEN SelectSeq(docs, LAMBDA d : /\ Get(d, "pub_date", None) # None
                                    /\ YearOf(d.pub_date.wall) = ParseInt(year).value)
    ELSE docs

\* lines 267-274
sort_key(doc) ==
    LET pub_date == Get(doc, "pub_date", None)
    IN  IF pub_date = None THEN DatetimeMin ELSE pub_date.wall

\* the place of `doc` in a list sorted newest first: after every document
\* whose key is not smaller (list.sort is stable, also with reverse=True)
RECURSIVE InsertByKey(_, _)
InsertByKey(sorted, doc) ==
    IF sorted = <<>> THEN <<doc>>
    ELSE IF sort_key(Head(sorted)) >= sort_key(doc)
    THEN <<Head(sorted)>> \o InsertByKey(Tail(sorted), doc)
    ELSE <<doc>> \o sorted

\* line 276: all_documents.sort(key=sort_key, reverse=True)
RECURSIVE SortNewestFirst(_)
SortNewestFirst(docs) ==
    IF docs = <<>> THEN <<>>
    ELSE InsertByKey(SortNewestFirst(SubSeq(docs, 1, Len(docs) - 1)), docs[Len(docs)])

\* lines 279-283
group_by_content_type(docs, t) ==
    SelectSeq(docs, LAMBDA d : Get(d, "content_type", Null) = t)

Selected(content_filter, own) == content_filter \in {"all", own}

\* lines 219-220, 228-229, 237-238: what a Federal Register fetch adds to
\* [raised, docs, count]
index_add_federal_register(acc, got) ==
    IF got.raised THEN [raised |-> TRUE, exc |-> got.exc]
    \* total_count += None
    ELSE IF got.count = JNull THEN [raised |-> TRUE, exc |-> "TypeError"]
    ELSE [raised |-> FALSE,
          docs   |-> acc.docs \o got.docs,
          count  |-> acc.count + got.count.int]

\* lines 213-238: one Federal Register fetch of index()
index_fetch_federal_register(acc, selected, resp, clock, legacy_requests) ==
    IF acc.raised \/ ~selected THEN acc
    ELSE index_add_federal_register(acc, fetch_federal_register(resp, clock, legacy_requests))

\* lines 250-251 and 262-263: what the filtered list of a feed adds
index_add_rss(acc, got) ==
    [raised |-> FALSE, docs |-> acc.docs \o got, count |-> acc.count + Len(got)]

\* lines 241-263: one RSS fetch of index()
index_fetch_rss(acc, selected, resp, content_type, source_name, year, clock) ==
    IF acc.raised \/ ~selected THEN acc
    ELSE index_add_rss(acc, filter_by_year(
             fetch_osha_rss(resp, content_type, source_name, clock).docs, year))

\* the sources of the page in the order index() asks them: the query of
\* each, the content type and the source name of the RSS-derived ones
IndexSources == <<"rules", "proposed", "notices", "interpretations", "directives">>
rss_feeds ==
    [interpretations |-> [content_type |-> "Interpretation", source |-> "OSHA Interpretations"],
     directives      |-> [content_type |-> "Directive", source |-> "OSHA Directives"]]

\* lines 213-263: what the first k sources add, asked one after the other
RECURSIVE index_gather(_, _, _, _, _, _)
index_gather(up, k, content_filter, year, clock, legacy_requests) ==
    IF k = 0 THEN [raised |-> FALSE, docs |-> <<>>, count |-> 0]
    ELSE LET acc      == index_gather(up, k - 1, content_filter, year, clock, legacy_requests)
             name     == IndexSources[k]
             selected == Selected(content_filter, name)
         IN  IF name \in DOMAIN rss_feeds
             THEN index_fetch_rss(acc, selected, up[name], rss_feeds[name].content_type,
                                  rss_feeds[name].source, year, clock)
             ELSE index_fetch_federal_register(acc, selected, up[name], clock,
                                               legacy_requests)

\* lines 279-301: the page model of the sorted documents
index_page(all_documents, total_count, content_filter, year, clock) ==
    [final_rules     |-> group_by_content_type(all_documents, "Rule"),
     proposed_rules  |-> group_by_content_type(all_documents, "Proposed Rule"),
     notices         |-> group_by_content_type(all_documents, "Notice"),
     interpretations |-> group_by_content_type(all_documents, "Interpretation"),
     directives      |-> group_by_content_type(all_documents, "Directive"),
     today           |-> StrfToday(clock),
     year            |-> year,
     current_year    |-> YearOf(clock),
     content_filter  |-> content_filter,
     total_count     |-> total_count,
     error           |-> FALSE]

\* lines 265-301: the sort and the rendering
index_render(all_documents, total_count, content_filter, year, clock) ==
    [pc            |-> "returned",
     all_documents |-> all_documents,
     page          |-> index_page(all_documents, total_count, content_filter, year, clock)]

\* what index() does with what the sources added
index_finish(gathered, content_filter, year, clock) ==
    IF gathered.raised THEN [pc |-> "raised", exc |-> gathered.exc]
    ELSE index_render(SortNewestFirst(gathered.docs), gathered.count,
                      content_filter, year, clock)

\* lines 200-301.  The result is [pc, page, all_documents], or [pc, exc] when
\* an exception leaves the handler.
index(up, content_filter, year, clock, legacy_requests) ==
    index_finish(index_gather(up, Len(IndexSources), content_filter, year, clock,
                              legacy_requests),
                 content_filter, year, clock)

----------------------------------------------------------------------------
(* email_digest.py: the source clients of the digest *)

\* lines 46-59: the digest entry of a Federal Register record
fetch_recent_federal_register_doc(doc) ==
    [title        |-> Get(doc, "title", ""),
     type         |-> Get(doc, "type", ""),
     abstract     |-> Get(doc, "abstract", ""),
     url          |-> Get(doc, "html_url", ""),
     pdf_url      |-> Get(doc, "pdf_url", ""),
     pub_date     |-> StrfLong(ParseDate(doc.publication_date).value.wall),
     effective_on |-> Get(doc, "effective_on", EmptyDate),
     source       |-> "Federal Register"]

\* lines 49 and 86: pub_date.replace(tzinfo=None) >= cutoff_date
in_lookback_window(raw, days, clock) ==
    /\ TruthyDate(raw)
    /\ ~ParseDate(raw).raised
    /\ ParseDate(raw).value.wall >= clock - days * TicksPerDay

\* lines 23-66: `except Exception` catches whatever the body raises, and
\* what was collected before the raise is lost
fetch_recent_federal_register(resp, days, clock) ==
    IF resp.kind # "ok" \/ ~IsObject(resp.body) THEN <<>>
    ELSE LET results == Get(resp.body.obj, "results", JArray(<<>>))
         IN  IF ~IsArray(results) THEN <<>>
             ELSE IF \E i \in 1..Len(results.items) : ~IsObject(results.items[i])
             THEN <<>>
             ELSE LET keep(item) ==
                          in_lookback_window(Get(item.obj, "publication_date", JNull),
                                             days, clock)
                      kept == SelectSeq(results.items, keep)
                  IN  [i \in 1..Len(kept) |-> fetch_recent_federal_register_doc(kept[i].obj)]

\* lines 87-96: the digest entry of an RSS item
fetch_recent_rss_doc(item, content_type) ==
    [title        |-> Get(item, "title", ""),
     type         |-> content_type,
     abstract     |-> Get(item, "description", ""),
     url          |-> Get(item, "link", ""),
     pdf_url      |-> "",
     pub_date     |-> StrfLong(ParseDate(item.pubDate).value.wall),
     effective_on |-> EmptyDate,
     source       |-> "OSHA.gov"]

\* lines 69-103
fetch_recent_rss(resp, content_type, days, clock) ==
    IF resp.kind # "ok" THEN <<>>
    ELSE LET keep(item) == in_lookback_window(Get(item, "pubDate", EmptyDate), days, clock)
             kept == SelectSeq(resp.body.channel, keep)
         IN  [i \in 1..Len(kept) |-> fetch_recent_rss_doc(kept[i], content_type)]

\* lines 106-122
get_all_recent_documents(up, days, clock) ==
    fetch_recent_federal_register(up.federal_register, days, clock)
        \o fetch_recent_rss(up.interpretations, "Interpretation", days, clock)
        \o fetch_recent_rss(up.directives, "Directive", days, clock)

----------------------------------------------------------------------------
(* email_digest.py: the bodies of the digest *)

\* str() of a text field inside an f-string
Str(v) == IF v = Null THEN "None" ELSE v

\* lines 125-134
format_type_label(doc_type) ==
    CASE doc_type = "Rule" -> "Final Rule"
      [] doc_type = "Proposed Rule" -> "Proposed Rule"
      [] doc_type = "Notice" -> "Notice"
      [] doc_type = "Interpretation" -> "Letter of Interpretation"
      [] doc_type = "Directive" -> "Directive"
      [] OTHER -> Str(doc_type)

\* 's' if len(documents) != 1 else ''
PluralOf(n) == IF n # 1 THEN "s" ELSE ""

\* line 176: the abstract cut to AbstractLimit characters
AbstractLimit == 300
truncate_abstract(abstract) ==
    IF Len(abstract) > AbstractLimit
    THEN SubSeq(abstract, 1, AbstractLimit) \o "..."
    ELSE abstract

OfType(documents, t) == SelectSeq(documents, LAMBDA d : d.type = t)

\* lines 195-199: the sections of the HTML body, in the order they are rendered
html_sections ==
    <<[title |-> "Final Rules",               type |-> "Rule",           color |-> "#c53030"],
      [title |-> "Proposed Rules",            type |-> "Proposed Rule",  color |-> "#dd6b20"],
      [title |-> "Letters of Interpretation", type |-> "Interpretation", color |-> "#2c7a7b"],
      [title |-> "Directives",                type |-> "Directive",      color |-> "#5a67d8"],
      [title |-> "Notices",                   type |-> "Notice",         color |-> "#718096"]>>

\* lines 165-193: the blocks of one section: nothing for no items, else the
\* heading and one block per item
render_section(title, items, color) ==
    IF items = <<>> THEN <<>>
    ELSE <<[block |-> "h2", title |-> title, count |-> Len(items), color |-> color]>>
         \o [i \in 1..Len(items) |->
                [block     |-> "item",
                 url       |-> Str(items[i].url),
                 title     |-> Str(items[i].title),
                 abstract  |-> truncate_abstract(items[i].abstract),
                 pub_date  |-> items[i].pub_date,
                 effective |-> IF TruthyDate(items[i].effective_on)
                               THEN " · Effective " \o RawText(items[i].effective_on)
                               ELSE ""]]

RECURSIVE render_sections(_, _)
render_sections(documents, k) ==
    IF k > Len(html_sections) THEN <<>>
    ELSE render_section(html_sections[k].title,
                        OfType(documents, html_sections[k].type),
                        html_sections[k].color)
         \o render_sections(documents, k + 1)

\* lines 137-211: the HTML body as its blocks, or the TypeError of len(None)
\* for a rendered item whose abstract is None
build_email_html(documents, clock) ==
    IF \E i \in 1..Len(documents) :
           /\ \E k \in 1..Len(html_sections) : documents[i].type = html_sections[k].type
           /\ documents[i].abstract = Null
    THEN [raised |-> TRUE, exc |-> "TypeError"]
    ELSE [raised |-> FALSE,
          body   |-> <<[block  |-> "summary",
                        today  |-> StrfToday(clock),
                        count  |-> Len(documents),
                        plural |-> PluralOf(Len(documents))]>>
                     \o render_sections(documents, 1)
                     \o <<[block |-> "footer"]>>]

RECURSIVE build_email_text_docs(_)
build_email_text_docs(documents) ==
    IF documents = <<>> THEN <<>>
    ELSE <<"[" \o format_type_label(Head(documents).type) \o "] "
               \o Str(Head(documents).title),
           "Published: " \o Head(documents).pub_date,
           "Link: " \o Str(Head(documents).url),
           "">>
         \o build_email_text_docs(Tail(documents))

\* lines 214-231: the plain-text body as its lines
build_email_text(documents, clock) ==
    <<"OSHA Monitor - " \o StrfToday(clock),
      "========================================",
      "",
      ToString(Len(documents)) \o " new item" \o PluralOf(Len(documents))
          \o " published since yesterday",
      "">>
    \o build_email_text_docs(documents)
    \o <<"----------------------------------------",
         "View all: https://osha-monitor.onrender.com">>

\* a send_digest that forgets to stop when there is nothing to report
send_digest_without_empty_check(up, days, api_key, transport, clock) ==
    IF ~Truthy(api_key) THEN [pc |-> "returned", value |-> FALSE, sent |-> <<>>]
    ELSE LET documents == get_all_recent_documents(up, days, clock)
             html      == build_email_html(documents, clock)
             message   == [subject |-> "OSHA Monitor: " \o ToString(Len(documents))
                                           \o " new update" \o PluralOf(Len(documents)),
                           html    |-> html.body,
                           text    |-> build_email_text(documents, clock)]
         IN  IF html.raised THEN [pc |-> "raised", exc |-> html.exc, sent |-> <<>>]
             ELSE [pc    |-> "returned",
                   value |-> transport = "ok",
                   sent  |-> <<message>>]

\* lines 234-268.  The result is [pc, value or exc, sent]: how the call
\* ended ("returned" or "raised"), what it returned or raised, and the
\* messages it handed to resend.Emails.send.
send_digest(up, days, api_key, transport, clock) ==
    IF ~Truthy(api_key) THEN [pc |-> "returned", value |-> FALSE, sent |-> <<>>]
    ELSE LET documents == get_all_recent_documents(up, days, clock)
             html      == build_email_html(documents, clock)
             message   == [subject |-> "OSHA Monitor: " \o ToString(Len(documents))
                                           \o " new update" \o PluralOf(Len(documents)),
                           html    |-> html.body,
                           text    |-> build_email_text(documents, clock)]
         IN  IF documents = <<>> THEN [pc |-> "returned", value |-> TRUE, sent |-> <<>>]
             ELSE IF html.raised THEN [pc |-> "raised", exc |-> html.exc, sent |-> <<>>]
             ELSE [pc    |-> "returned",
                   value |-> transport = "ok",
                   sent  |-> <<message>>]

----------------------------------------------------------------------------
(* What the remote sources may answer *)

\* the date string of the day k days after the clock's day
DayText(clock, k, tod, aware) == DateText(OrdOf(clock) + k, tod, aware)

FailureKinds == {"network_error", "http_error", "invalid_body"}
Failures == {[kind |-> k] : k \in FailureKinds}
Ok(body) == [kind |-> "ok", body |-> body]

\* records of the Federal Register API
FrTypical(clock) ==
    JObject([title |-> "Rule A", type |-> "Rule", abstract |-> "An abstract",
             publication_date |-> DayText(clock, 0, 0, FALSE),
             effective_on |-> DayText(clock, 10, 0, FALSE),
             html_url |-> "https://fr/a", pdf_url |-> "https://fr/a.pdf"])
FrNullAbstract(clock) ==
    JObject([title |-> "Notice B", type |-> "Notice", abstract |-> Null,
             publication_date |-> DayText(clock, -1, 0, FALSE),
             effective_on |-> JNull,
             html_url |-> "https://fr/b", pdf_url |-> "https://fr/b.pdf"])
FrNoType ==
    JObject([title |-> "Untyped C", abstract |-> "", publication_date |-> Garbage,
             html_url |-> "https://fr/c"])
FrNoDate ==
    JObject([title |-> "Proposed D", type |-> "Proposed Rule",
             abstract |-> Repeat("x", AbstractLimit + 1), html_url |-> "https://fr/d"])
FrFuture(clock) ==
    JObject([title |-> "Document E", type |-> "Presidential Document",
             abstract |-> "Scheduled",
             publication_date |-> DayText(clock, 2, 0, FALSE),
             html_url |-> "https://fr/e"])
FrLongNotice(clock) ==
    JObject([title |-> "Notice L", type |-> "Notice",
             abstract |-> Repeat("x", AbstractLimit + 1),
             publication_date |-> DayText(clock, 0, 0, FALSE),
             effective_on |-> EmptyDate,
             html_url |-> "https://fr/l", pdf_url |-> "https://fr/l.pdf"])
FrEarliest ==
    JObject([title |-> "Rule F", type |-> "Rule", abstract |-> "Earliest date",
             publication_date |-> [y |-> 1, m |-> 1, d |-> 1, tod |-> 0, aware |-> FALSE],
             html_url |-> "https://fr/f"])

ClientFrRecords(clock) ==
    {FrTypical(clock), FrNullAbstract(clock), FrNoType, FrNoDate, FrFuture(clock),
     FrEarliest, JNull}

\* JSON bodies of an unexpected shape: an array, an object whose "results"
\* is null, an error object
JsonOddBodies ==
    {JArray(<<>>),
     JObject([results |-> JNull, count |-> JInt(0)]),
     JObject([results |-> JArray(<<>>), count |-> JNull]),
     JObject([description |-> "Not Found"])}

ClientJsonResponses(clock) ==
    Failures
    \cup {Ok(b) : b \in JsonOddBodies}
    \cup {Ok(JObject([results |-> JArray(rs), count |-> JInt(Len(rs) + extra)])) :
             rs \in SeqsUpTo(ClientFrRecords(clock), MaxRecords), extra \in {0, 40}}

\* items of an RSS feed
RssRecent(clock) ==
    [title |-> "Letter G", link |-> "https://osha/g", description |-> "A letter",
     pubDate |-> DayText(clock, 0, 0, TRUE)]
RssOld(clock) ==
    [title |-> "Letter H", link |-> "https://osha/h", description |-> "An old letter",
     pubDate |-> DayText(clock, -400, 1, TRUE)]
RssFuture(clock) ==
    [title |-> "Letter I", link |-> "https://osha/i",
     pubDate |-> DayText(clock, 2, 1, FALSE)]
RssNoDate == [title |-> "Letter J", link |-> "https://osha/j", description |-> ""]
RssBadDate == [title |-> "Letter K", pubDate |-> Garbage]

ClientRssItems(clock) ==
    {RssRecent(clock), RssOld(clock), RssFuture(clock), RssNoDate, RssBadDate}

ClientXmlResponses(clock) ==
    Failures \cup {Ok(Xml(items)) : items \in SeqsUpTo(ClientRssItems(clock), MaxRecords)}

----------------------------------------------------------------------------
(* The source clients, each called on one upstream answer *)

ClientNows == {Ymd2Ord(2026, 11, 1) * TicksPerDay + t : t \in 0..(TicksPerDay - 1)}

InitClients ==
    /\ now \in ClientNows
    /\ pc = "ready"
    /\ args \in [days : 1..MaxLookback, legacy_requests : BOOLEAN]
    /\ upstream \in ClientJsonResponses(now) \cup ClientXmlResponses(now)
    /\ result = NoResult
    /\ outbox = <<>>

\* a failure may answer any client; a parsed body answers the clients of its format
AnswersJson == IF upstream.kind # "ok" THEN TRUE ELSE ~IsXml(upstream.body)
AnswersXml == IF upstream.kind # "ok" THEN TRUE ELSE IsXml(upstream.body)

CallFetchFederalRegister ==
    /\ pc = "ready"
    /\ AnswersJson
    /\ LET got == fetch_federal_register(upstream, now, args.legacy_requests)
       IN  /\ result' = [op |-> "fetch_federal_register"] @@ got
           /\ pc' = IF got.raised THEN "raised" ELSE "returned"
    /\ UNCHANGED <<now, args, upstream, outbox>>

CallFetchOshaRss ==
    /\ pc = "ready"
    /\ AnswersXml
    /\ \E feed \in {<<"Interpretation", "OSHA Interpretations">>,
                    <<"Directive", "OSHA Directives">>} :
           LET got == fetch_osha_rss(upstream, feed[1], feed[2], now)
           IN  /\ result' = [op |-> "fetch_osha_rss"] @@ got
               /\ pc' = IF got.raised THEN "raised" ELSE "returned"
    /\ UNCHANGED <<now, args, upstream, outbox>>

CallFetchRecentFederalRegister ==
    /\ pc = "ready"
    /\ AnswersJson
    /\ result' = [op     |-> "fetch_recent_federal_register",
                  raised |-> FALSE,
                  docs   |-> fetch_recent_federal_register(upstream, args.days, now)]
    /\ pc' = "returned"
    /\ UNCHANGED <<now, args, upstream, outbox>>

CallFetchRecentRss ==
    /\ pc = "ready"
    /\ AnswersXml
    /\ \E content_type \in {"Interpretation", "Directive"} :
           result' = [op     |-> "fetch_recent_rss",
                      raised |-> FALSE,
                      docs   |-> fetch_recent_rss(upstream, content_type, args.days, now)]
    /\ pc' = "returned"
    /\ UNCHANGED <<now, args, upstream, outbox>>

NextClients ==
    \/ CallFetchFederalRegister
    \/ CallFetchOshaRss
    \/ CallFetchRecentFederalRegister
    \/ CallFetchRecentRss

SpecClients == InitClients /\ [][NextClients]_vars

----------------------------------------------------------------------------
(* A digest run *)

\* ways to split at most n records over the three sources of the digest
Splits(n) == {l \in (0..n) \X (0..n) \X (0..n) : l[1] + l[2] + l[3] <= n}

DigestFrRecords(clock) ==
    {FrTypical(clock), FrNullAbstract(clock), FrLongNotice(clock), FrFuture(clock)}

\* the answers of the Federal Register API that hold n records
DigestJsonResponses(clock, n) ==
    IF n = 0
    THEN Failures \cup {Ok(JArray(<<>>))}
    ELSE {Ok(JObject([results |-> JArray(rs), count |-> JInt(n)])) :
             rs \in [1..n -> DigestFrRecords(clock)]}

DigestRssItems(clock) == {RssRecent(clock), RssFuture(clock), RssNoDate}

\* the answers of an RSS feed that hold n items
DigestXmlResponses(clock, n) ==
    IF n = 0
    THEN Failures \cup {Ok(Xml(<<>>))}
    ELSE {Ok(Xml(items)) : items \in [1..n -> DigestRssItems(clock)]}

DigestUpstreams(clock) ==
    UNION {{[federal_register |-> fr, interpretations |-> li, directives |-> di] :
               fr \in DigestJsonResponses(clock, l[1]),
               li \in DigestXmlResponses(clock, l[2]),
               di \in DigestXmlResponses(clock, l[3])} : l \in Splits(MaxDigestRecords)}

\* the clock at midnight and at the last tick of the day
DigestNows == {Ymd2Ord(2026, 11, 1) * TicksPerDay + t : t \in {0, TicksPerDay - 1}}

InitDigest ==
    /\ now \in DigestNows
    /\ pc = "ready"
    /\ args \in [days      : 1..MaxLookback,
                 api_key   : {Null, "re_123"},
                 transport : {"ok", "raises"}]
    /\ upstream \in DigestUpstreams(now)
    /\ result = NoResult
    /\ outbox = <<>>

\* send_digest(days), with RESEND_API_KEY and the transport as configured
CallSendDigest ==
    /\ pc = "ready"
    /\ LET got == send_digest(upstream, args.days, args.api_key, args.transport, now)
       IN  /\ result' = [op |-> "send_digest"] @@ got
           /\ pc' = got.pc
           /\ outbox' = outbox \o got.sent
    /\ UNCHANGED <<now, args, upstream>>

\* get_all_recent_documents(days)
CallGetAllRecentDocuments ==
    /\ pc = "ready"
    /\ result' = [op   |-> "get_all_recent_documents",
                  docs |-> get_all_recent_documents(upstream, args.days, now)]
    /\ pc' = "returned"
    /\ UNCHANGED <<now, args, upstream, outbox>>

NextDigest == CallSendDigest \/ CallGetAllRecentDocuments

SpecDigest == InitDigest /\ [][NextDigest]_vars

----------------------------------------------------------------------------
(* A request of the page *)

\* a source the request does not ask
NotAsked == [kind |-> "not_asked"]

IndexFrRecords(clock) == {FrTypical(clock), FrNoDate, FrEarliest, FrNoType}

\* the answers of the Federal Register API that hold n records
IndexJsonResponses(clock, n) ==
    IF n = 0
    THEN {[kind |-> "network_error"], Ok(JArray(<<>>)),
          Ok(JObject([results |-> JArray(<<>>), count |-> JInt(0)]))}
    ELSE {Ok(JObject([results |-> JArray(rs), count |-> JInt(n + 40)])) :
             rs \in [1..n -> IndexFrRecords(clock)]}

IndexRssItems(clock) == {RssRecent(clock), RssOld(clock), RssNoDate}

\* the answers of an RSS feed that hold n items
IndexXmlResponses(clock, n) ==
    IF n = 0
    THEN {[kind |-> "network_error"], Ok(Xml(<<>>))}
    ELSE {Ok(Xml(items)) : items \in [1..n -> IndexRssItems(clock)]}

\* ways to split at most n records over the five sources of the page
IndexSplits(n) == {l \in [1..5 -> 0..n] : l[1] + l[2] + l[3] + l[4] + l[5] <= n}

\* the answers of the sources a request with this filter asks
IndexUpstreams(clock, content_filter) ==
    LET answers(k, n) ==
            IF ~Selected(content_filter, IndexSources[k]) THEN {NotAsked}
            ELSE IF k <= 3 THEN IndexJsonResponses(clock, n)
            ELSE IndexXmlResponses(clock, n)
        asked(l) == \A k \in 1..5 : Selected(content_filter, IndexSources[k]) \/ l[k] = 0
    IN  UNION {{[rules |-> a, proposed |-> b, notices |-> c,
                 interpretations |-> d, directives |-> e] :
                   a \in answers(1, l[1]), b \in answers(2, l[2]), c \in answers(3, l[3]),
                   d \in answers(4, l[4]), e \in answers(5, l[5])} :
               l \in {x \in IndexSplits(MaxIndexRecords) : asked(x)}}

ContentFilters ==
    {"all", "rules", "proposed", "notices", "interpretations", "directives", "other"}
Years == {"all", "2026", "recent"}

\* The page is requested with requests 2.27 or later installed; what an
\* earlier requests does with a body that is not JSON is in SpecClients.
InitIndex ==
    /\ now \in DigestNows
    /\ pc = "ready"
    /\ args \in [content_filter : ContentFilters, year : Years, legacy_requests : {FALSE}]
    /\ upstream \in IndexUpstreams(now, args.content_filter)
    /\ result = NoResult
    /\ outbox = <<>>

\* GET /?content=<content_filter>&year=<year>
CallIndex ==
    /\ pc = "ready"
    /\ result' = [op |-> "index"]
                      @@ index(upstream, args.content_filter, args.year, now,
                               args.legacy_requests)
    /\ pc' = result'.pc
    /\ UNCHANGED <<now, args, upstream, outbox>>

NextIndex == CallIndex

SpecIndex == InitIndex /\ [][NextIndex]_vars

----------------------------------------------------------------------------
(* The page under a year filter: what the two RSS feeds hold *)

RssNewYear ==
    [title |-> "Letter M", link |-> "https://osha/m", description |-> "First of the year",
     pubDate |-> [y |-> 2026, m |-> 1, d |-> 1, tod |-> 0, aware |-> TRUE]]
RssNewYearsEve ==
    [title |-> "Letter N", link |-> "https://osha/n", description |-> "Last of the year",
     pubDate |-> [y |-> 2025, m |-> 12, d |-> 31, tod |-> TicksPerDay - 1, aware |-> TRUE]]

YearFilterRssItems(clock) ==
    {RssRecent(clock), RssOld(clock), RssNoDate, RssBadDate, RssNewYear, RssNewYearsEve}

\* the answers of an RSS feed that hold n items
YearFilterXmlResponses(clock, n) ==
    IF n = 0
    THEN {[kind |-> "network_error"], Ok(Xml(<<>>))}
    ELSE {Ok(Xml(items)) : items \in [1..n -> YearFilterRssItems(clock)]}

\* the answers of the Federal Register API to the three queries of the page
YearFilterJsonResponses(clock) ==
    {[rules |-> r, proposed |-> e, notices |-> e] :
        r \in {Ok(JObject([results |-> JArray(<<>>), count |-> JInt(0)])),
               Ok(JObject([results |-> JArray(<<FrTypical(clock)>>), count |-> JInt(1)]))},
        e \in {Ok(JObject([results |-> JArray(<<>>), count |-> JInt(0)]))}}

\* the answers of the sources a request with this filter asks
YearFilterUpstreams(clock, content_filter) ==
    LET asked(name) == Selected(content_filter, name)
        fr   == IF content_filter = "all" THEN YearFilterJsonResponses(clock)
                ELSE {[rules |-> NotAsked, proposed |-> NotAsked, notices |-> NotAsked]}
        feed(name, n) == IF asked(name) THEN YearFilterXmlResponses(clock, n)
                         ELSE {NotAsked}
        sizes == {l \in [1..2 -> 0..MaxFeedItems] :
                     /\ l[1] + l[2] <= MaxFeedItems
                     /\ (asked("interpretations") \/ l[1] = 0)
                     /\ (asked("directives") \/ l[2] = 0)}
    IN  UNION {{f @@ [interpretations |-> d, directives |-> e] :
                   f \in fr, d \in feed("interpretations", l[1]),
                   e \in feed("directives", l[2])} :
               l \in sizes}

\* the year arguments of a request: none, "all", years, a year with a blank
\* or a sign around it, and words
YearArguments == {"", "all", "2026", "2025", "1999", " 2026", "+2025", "recent", "20x6"}

InitYearFilter ==
    /\ now \in DigestNows
    /\ pc = "ready"
    /\ args \in [content_filter : {"all", "interpretations", "directives"},
                 year : YearArguments, legacy_requests : {FALSE}]
    /\ upstream \in YearFilterUpstreams(now, args.content_filter)
    /\ result = NoResult
    /\ outbox = <<>>

NextYearFilter == CallIndex

SpecYearFilter == InitYearFilter /\ [][NextYearFilter]_vars

----------------------------------------------------------------------------
(* The label operations on one date string *)

\* the days on which the operations run
NowDays == {Ymd2Ord(2026, 11, 1), Ymd2Ord(2024, 3, 1)}
Nows == {d * TicksPerDay + t : d \in NowDays, t \in 0..(TicksPerDay - 1)}

LabelTexts(clock) ==
    {DateText(OrdOf(clock) - k, t, a) :
        k \in (0 - MaxDaysAhead)..MaxDaysAgo, t \in 0..(TicksPerDay - 1), a \in BOOLEAN}

InitLabels ==
    /\ now \in Nows
    /\ pc = "ready"
    /\ args \in [date : LabelTexts(now)]
    /\ upstream = NoResult
    /\ result = NoResult
    /\ outbox = <<>>

\* lines 93-96: parse the publication date and label it
CallFormatTimeAgo ==
    /\ pc = "ready"
    /\ ~ParseDate(args.date).raised
    /\ result' = [op |-> "format_time_ago",
                  value |-> format_time_ago(ParseDate(args.date).value, now)]
    /\ pc' = "done"
    /\ UNCHANGED <<now, args, upstream, outbox>>

\* lines 103-121: label the effective date of a document
CallEffectiveStatus ==
    /\ pc = "ready"
    /\ result' = [op |-> "effective_status",
                  value |-> effective_status([effective_on |-> args.date], now)]
    /\ pc' = "done"
    /\ UNCHANGED <<now, args, upstream, outbox>>

NextLabels == CallFormatTimeAgo \/ CallEffectiveStatus

SpecLabels == InitLabels /\ [][NextLabels]_vars

----------------------------------------------------------------------------
(* Claims about the labels (SpecLabels) *)

\* the date string given to the label operation, read field by field
ArgWall == Ymd2Ord(args.date.y, args.date.m, args.date.d) * TicksPerDay + args.date.tod
\* whole days elapsed from the date string to the clock reading
ElapsedDays == (now - ArgWall) \div TicksPerDay
\* calendar days from the clock's day to the day of the date string
DaysAhead == Ymd2Ord(args.date.y, args.date.m, args.date.d) - OrdOf(now)
ArgMonthYear == MonthAbbr[args.date.m] \o " " \o ToString(args.date.y)
ArgShortDate ==
    MonthAbbr[args.date.m] \o " " \o Pad2(args.date.d) \o ", " \o ToString(args.date.y)

TimeAgoDone == pc = "done" /\ result.op = "format_time_ago"
EffectiveDone == pc = "done" /\ result.op = "effective_status"

\* C7 as stated: the label is chosen by the whole elapsed days d, "N weeks
\* ago" for every d in 7..29 and "N months ago" for every d in 30..364, so
\* that exactly 7 days gives "1 weeks ago" and exactly 30 days "1 months ago".
C7_AsStated ==
    TimeAgoDone =>
        result.value =
            (CASE ElapsedDays < 0 -> "Upcoming"
               [] ElapsedDays = 0 -> "Today"
               [] ElapsedDays = 1 -> "Yesterday"
               [] ElapsedDays \in 2..6 -> ToString(ElapsedDays) \o " days ago"
               [] ElapsedDays \in 7..29 -> ToString(ElapsedDays \div 7) \o " weeks ago"
               [] ElapsedDays \in 30..364 -> ToString(ElapsedDays \div 30) \o " months ago"
               [] OTHER -> ArgMonthYear)

\* C7 amended: the label is chosen by the whole elapsed days d: future ->
\* "Upcoming", 0 -> "Today", 1 -> "Yesterday", 2..6 -> "N days ago", 7..29 ->
\* "N week(s) ago" with N = d div 7, 30..364 -> "N month(s) ago" with N =
\* d div 30, >= 365 -> abbreviated month and year; the unit is singular when
\* N = 1, so exactly 7 days gives "1 week ago" and exactly 30 days "1 month
\* ago".
C7_TimeAgoLabels ==
    TimeAgoDone =>
        result.value =
            (CASE ElapsedDays < 0 -> "Upcoming"
               [] ElapsedDays = 0 -> "Today"
               [] ElapsedDays = 1 -> "Yesterday"
               [] ElapsedDays \in 2..6 -> ToString(ElapsedDays) \o " days ago"
               [] ElapsedDays \in 7..13 -> "1 week ago"
               [] ElapsedDays \in 14..29 -> ToString(ElapsedDays \div 7) \o " weeks ago"
               [] ElapsedDays \in 30..59 -> "1 month ago"
               [] ElapsedDays \in 60..364 -> ToString(ElapsedDays \div 30) \o " months ago"
               [] OTHER -> ArgMonthYear)

\* C7 witness: a date exactly 30 days before the clock reading was labelled
C7_Witness ==
    /\ TimeAgoDone
    /\ now - ArgWall = 30 * TicksPerDay
    /\ result.value = "1 month ago"

\* C8 as stated: for an effective date that is a calendar date, N calendar
\* days ahead of the day the fetch runs, at any time of that day: N = 0 gives
\* "Effective today", N = 1 "Effective tomorrow", 2 <= N <= 29 "Effective in
\* N days", N >= 30 "Effective <Mon DD, YYYY>", and a past date "Effective
\* since <Mon DD, YYYY>".
C8_AsStated ==
    (EffectiveDone /\ args.date.tod = 0 /\ ~args.date.aware) =>
        result.value =
            (CASE DaysAhead < 0 -> "Effective since " \o ArgShortDate
               [] DaysAhead = 0 -> "Effective today"
               [] DaysAhead = 1 -> "Effective tomorrow"
               [] DaysAhead \in 2..29 -> "Effective in " \o ToString(DaysAhead) \o " days"
               [] OTHER -> "Effective " \o ArgShortDate)

----------------------------------------------------------------------------
(* Claims about the source clients (SpecClients) *)

\* an upstream outcome that is a failure: a network error, a non-success
\* status, a body that does not parse, or a parsed JSON body that is not an
\* object holding an array of objects under "results"
AnswerFailed(resp) ==
    IF resp.kind \in FailureKinds THEN TRUE
    ELSE IF IsXml(resp.body) THEN FALSE
    ELSE IF ~IsObject(resp.body) THEN TRUE
    ELSE IF "results" \notin DOMAIN resp.body.obj THEN TRUE
    ELSE IF ~IsArray(resp.body.obj.results) THEN TRUE
    ELSE \E i \in 1..Len(resp.body.obj.results.items) :
             ~IsObject(resp.body.obj.results.items[i])

UpstreamFailed == AnswerFailed(upstream)

\* C1 as stated: whichever client was called and whichever way the upstream
\* failed, the call returns (raises nothing) an empty list, with count 0 from
\* the API client.
C1_AsStated ==
    (pc # "ready" /\ UpstreamFailed) =>
        /\ pc = "returned"
        /\ result.docs = <<>>
        /\ (result.op = "fetch_federal_register" => result.count = JInt(0))

----------------------------------------------------------------------------
(* Claims about the page (SpecIndex) *)

IndexDone == pc # "ready" /\ result.op = "index"
IndexReturned == pc = "returned" /\ result.op = "index"

\* the sources the request asks
AskedSources == {k \in 1..Len(IndexSources) : Selected(args.content_filter, IndexSources[k])}

\* what an asked source yields when fetched on its own
SourceDocuments(name) ==
    IF name \in DOMAIN rss_feeds
    THEN filter_by_year(fetch_osha_rss(upstream[name], rss_feeds[name].content_type,
                                       rss_feeds[name].source, now).docs, args.year)
    ELSE fetch_federal_register(upstream[name], now, args.legacy_requests).docs

\* the five groups of the rendered page
PageGroups ==
    <<result.page.final_rules, result.page.proposed_rules, result.page.notices,
      result.page.interpretations, result.page.directives>>

\* C2 as stated: whatever the filter, the year and the failures of the
\* sources, index() renders; the documents of every source that did not fail
\* are on the page, and when every asked source failed the five groups are
\* empty and total_count is 0.
C2_AsStated ==
    IndexDone =>
        /\ pc = "returned"
        /\ \A k \in AskedSources :
               ~AnswerFailed(upstream[IndexSources[k]]) =>
                   \A i \in 1..Len(SourceDocuments(IndexSources[k])) :
                       \E j \in 1..Len(result.all_documents) :
                           result.all_documents[j] = SourceDocuments(IndexSources[k])[i]
        /\ (\A k \in AskedSources : AnswerFailed(upstream[IndexSources[k]])) =>
               /\ \A g \in 1..5 : PageGroups[g] = <<>>
               /\ result.page.total_count = 0

\* sub is what is left of full after dropping some of its elements
RECURSIVE IsSubSeq(_, _)
IsSubSeq(sub, full) ==
    IF sub = <<>> THEN TRUE
    ELSE IF full = <<>> THEN FALSE
    ELSE IF Head(sub) = Head(full) THEN IsSubSeq(Tail(sub), Tail(full))
    ELSE IsSubSeq(sub, Tail(full))

\* C5 as stated: the five groups of the page are a partition of the sorted
\* documents: every document is in exactly one group, each group keeps the
\* sort order, and the groups together hold as many documents as the sorted
\* sequence, whatever type the upstream gave.
C5_AsStated ==
    IndexReturned =>
        /\ \A i \in 1..Len(result.all_documents) :
               Cardinality({g \in 1..5 :
                   \E j \in 1..Len(PageGroups[g]) :
                       PageGroups[g][j] = result.all_documents[i]}) = 1
        /\ \A g \in 1..5 : IsSubSeq(PageGroups[g], result.all_documents)
        /\ Len(PageGroups[1]) + Len(PageGroups[2]) + Len(PageGroups[3])
               + Len(PageGroups[4]) + Len(PageGroups[5]) = Len(result.all_documents)

Dated(doc) == Get(doc, "pub_date", None) # None

\* C6 as stated: after the sort the dated documents are in non-increasing
\* order of publication date, and no document without a parsed publication
\* date stands before a document that has one.
C6_AsStated ==
    IndexReturned =>
        \A i, j \in 1..Len(result.all_documents) :
            i < j =>
                /\ (Dated(result.all_documents[i]) /\ Dated(result.all_documents[j]))
                       => result.all_documents[i].pub_date.wall
                              >= result.all_documents[j].pub_date.wall
                /\ ~(~Dated(result.all_documents[i]) /\ Dated(result.all_documents[j]))

\* the year a year argument names, for the arguments that name one
NamedYear ==
    CASE args.year \in {"2026", " 2026"} -> 2026
      [] args.year \in {"2025", "+2025"} -> 2025
      [] args.year = "1999" -> 1999
      [] OTHER -> 0
YearNamed == args.year \in {"2026", " 2026", "2025", "+2025", "1999"}

\* the items of a feed as the upstream gave them
FeedItems(name) ==
    IF upstream[name].kind = "ok" THEN upstream[name].body.channel ELSE <<>>

\* the date string of the item holds a date of the named year
ItemOfNamedYear(item) ==
    IF "pubDate" \notin DOMAIN item THEN FALSE
    ELSE IF item.pubDate = Garbage THEN FALSE
    ELSE item.pubDate.y = NamedYear

\* what the claim says the page keeps of a feed
ExpectedItems(name) ==
    IF YearNamed THEN SelectSeq(FeedItems(name), ItemOfNamedYear) ELSE FeedItems(name)

\* how often a title occurs among the items, and among the documents of a
\* source on the page
TimesInItems(items, title) ==
    Cardinality({i \in 1..Len(items) : items[i].title = title})
TimesOnPage(source, title) ==
    Cardinality({i \in 1..Len(result.all_documents) :
                    /\ result.all_documents[i].source = source
                    /\ result.all_documents[i].title = title})

FeedTitles == {"Letter G", "Letter H", "Letter J", "Letter K", "Letter M", "Letter N"}

----------------------------------------------------------------------------
(* Claims about the digest (SpecDigest) *)

DigestDone == pc # "ready" /\ result.op = "send_digest"
\* what the lookback fetch of the run yields
LookbackDocuments == get_all_recent_documents(upstream, args.days, now)

\* C3 as stated: send_digest always ends by returning a boolean and never
\* by an exception; the boolean is failure exactly when the credential is
\* absent or the transport was invoked and raised.
C3_AsStated ==
    DigestDone =>
        /\ pc = "returned"
        /\ result.value \in BOOLEAN
        /\ result.value = ~(\/ ~Truthy(args.api_key)
                            \/ (outbox # <<>> /\ args.transport = "raises"))

\* C4 as stated: whenever the lookback fetch yields zero documents, the
\* transport is not invoked and send_digest returns success, also when the
\* credential is absent.
C4_AsStated ==
    (DigestDone /\ LookbackDocuments = <<>>) =>
        /\ pc = "returned"
        /\ outbox = <<>>
        /\ result.value = TRUE

\* C4 amended: whenever the lookback fetch yields zero documents, send_digest
\* does not invoke the transport; it returns success when the credential is
\* present, whatever the transport would do, and failure when the credential
\* is absent.
C4_NothingToReport ==
    (DigestDone /\ LookbackDocuments = <<>>) =>
        /\ pc = "returned"
        /\ outbox = <<>>
        /\ result.value = Truthy(args.api_key)

\* C4 witness: a run with the credential set and a transport that would
\* raise, whose feeds answered with items that all fall outside the window,
\* returned success
C4_Witness ==
    /\ DigestDone
    /\ Truthy(args.api_key)
    /\ args.transport = "raises"
    /\ upstream.interpretations.kind = "ok"
    /\ Len(upstream.interpretations.body.channel) > 0
    /\ LookbackDocuments = <<>>
    /\ result.value = TRUE

\* the documents of the run grouped in the display order of the digest
RECURSIVE GroupedInDisplayOrder(_, _)
GroupedInDisplayOrder(docs, k) ==
    IF k > Len(html_sections) THEN <<>>
    ELSE SelectSeq(docs, LAMBDA d : d.type = html_sections[k].type)
         \o GroupedInDisplayOrder(docs, k + 1)

\* the sections with at least one document, in display order
NonEmptySections(docs) ==
    LET has(sec) == \E i \in 1..Len(docs) : docs[i].type = sec.type
        kept == SelectSeq(html_sections, has)
    IN  [k \in 1..Len(kept) |-> kept[k].title]

HtmlItemTitles(html) ==
    LET items == SelectSeq(html, LAMBDA b : b.block = "item")
    IN  [i \in 1..Len(items) |-> items[i].title]
HtmlHeadings(html) ==
    LET heads == SelectSeq(html, LAMBDA b : b.block = "h2")
    IN  [i \in 1..Len(heads) |-> heads[i].title]
\* the "[label] title" lines of the text body: 5 lines of heading, 4 lines
\* for every document, 2 lines of footer
TextItemLines(text) == [i \in 1..((Len(text) - 7) \div 4) |-> text[5 + 4 * (i - 1) + 1]]

\* C9 as stated: both bodies list the documents of the run grouped by type
\* in the order Final Rules, Proposed Rules, Letters of Interpretation,
\* Directives, Notices, with a heading for exactly the groups that have a
\* document, and every document exactly once.
C9_AsStated ==
    (DigestDone /\ outbox # <<>>) =>
        LET grouped == GroupedInDisplayOrder(LookbackDocuments, 1)
        IN  /\ Len(grouped) = Len(LookbackDocuments)
            /\ HtmlHeadings(outbox[1].html) = NonEmptySections(LookbackDocuments)
            /\ HtmlItemTitles(outbox[1].html)
                   = [i \in 1..Len(grouped) |-> Str(grouped[i].title)]
            /\ TextItemLines(outbox[1].text)
                   = [i \in 1..Len(grouped) |->
                         "[" \o format_type_label(grouped[i].type) \o "] "
                             \o Str(grouped[i].title)]

\* C10 as stated: every document get_all_recent_documents(days) returns was
\* published in the window: its publication date is the date of an instant
\* from now minus `days` days to now.
C10_AsStated ==
    (pc # "ready" /\ result.op = "get_all_recent_documents") =>
        \A i \in 1..Len(result.docs) :
            \E t \in (now - args.days * TicksPerDay)..now :
                result.docs[i].pub_date = StrfLong(t)

=============================================================================
